---- MODULE Spec2Model ----
(***************************************************************************)
(* A model of the sliding-tile A* solver (cpp-solver/src/PuzzleSolver.hpp) *)
(* and of its two adapters (main.cpp, bindings.cpp).                       *)
(*                                                                         *)
(* A State is a sequence of 9 integers; the code indexes it from 0, the    *)
(* model keeps the code's 0-based indices and reads slot i with At(s, i).  *)
(***************************************************************************)
EXTENDS Integers, Sequences, FiniteSets, TLC

\* ------------------------------------------------------------------------
\* Program constants
\* ------------------------------------------------------------------------

\* using State = std::array<int, 9>
StateLen == 9

\* PuzzleSolver(int grid_size = 3)
DefaultGridSize == 3

\* goal_state_({1, 2, 3, 4, 5, 6, 7, 8, 0}): the initializer does not read
\* grid_size
GoalLayout(grid_size) == <<1, 2, 3, 4, 5, 6, 7, 8, 0>>

\* a variant of Offsets: the last offset steps a column as well as a row
OffsetsDiagonal == <<
    <<0, 1>>, <<0, -1>>, <<1, 0>>, <<-1, -1>>
  >>

\* std::vector<Move>{{0, 1}, {0, -1}, {1, 0}, {-1, 0}}
Offsets == <<
    <<0, 1>>, <<0, -1>>, <<1, 0>>, <<-1, 0>>
  >>

\* ------------------------------------------------------------------------
\* Bounds of the model
\* ------------------------------------------------------------------------

\* inputs are the permutations at most MaxDepth slides away from the goal
\* (plus RegressionStates)
MaxDepth == 3

\* grid dimensions a direct caller constructs a solver with.  With 4 or more
\* the expansion indexes the 9-slot array out of range, with 0 it divides by
\* zero; those are left out.
GridSizes == {2, 3}

\* deeper inputs, on which the stale frontier keys matter: on the first the
\* goal is popped with a g-score above the distance, on the second an entry
\* with a stale key is popped and its state expanded
RegressionStates ==
  { <<7, 1, 3, 2, 4, 6, 5, 8, 0>>,
    <<1, 3, 5, 4, 0, 8, 7, 6, 2>> }

\* ------------------------------------------------------------------------
\* State helpers
\* ------------------------------------------------------------------------

At(s, i) == s[i + 1]

\* a variant of SwapCells: the blank written over the tile, the tile not
\* written into the blank's slot
SwapCellsTileLost(s, i, j) == [s EXCEPT ![j + 1] = s[i + 1]]

\* std::swap(neighbor_state[empty_index], neighbor_state[tile_index])
SwapCells(s, i, j) == [s EXCEPT ![i + 1] = s[j + 1], ![j + 1] = s[i + 1]]

Abs(x) == IF x < 0 THEN -x ELSE x

\* the scan for the blank: the first slot holding 0, -1 when there is none
EmptyIndex(s) ==
  IF \E i \in 0..(Len(s) - 1) : At(s, i) = 0
  THEN CHOOSE i \in 0..(Len(s) - 1) :
         At(s, i) = 0 /\ \A j \in 0..(i - 1) : At(s, j) # 0
  ELSE -1

\* the bounds test of the expansion
InBounds(tile_r, tile_c, grid_size) ==
  tile_r >= 0 /\ tile_r < grid_size /\ tile_c >= 0 /\ tile_c < grid_size

TileRow(s, k, grid_size) == (EmptyIndex(s) \div grid_size) + Offsets[k][1]
TileCol(s, k, grid_size) == (EmptyIndex(s) % grid_size) + Offsets[k][2]

\* the neighbor formed for offset k (only used when InBounds)
NeighborState(s, k, grid_size) ==
  SwapCells(s, EmptyIndex(s),
            TileRow(s, k, grid_size) * grid_size + TileCol(s, k, grid_size))

\* the states one expansion step generates from s
Neighbors(s, grid_size) ==
  { NeighborState(s, k, grid_size) :
      k \in { j \in 1..Len(Offsets) :
                InBounds(TileRow(s, j, grid_size), TileCol(s, j, grid_size),
                         grid_size) } }

\* ------------------------------------------------------------------------
\* heuristic: the Manhattan distance
\* ------------------------------------------------------------------------

\* a variant of TileDistance: the distance between the flat indices instead
\* of the row distance plus the column distance
TileDistanceFlat(state, i, grid_size) ==
  LET num == At(state, i)
      goal_index == num - 1
  IN IF num # 0 THEN Abs(i - goal_index) ELSE 0

\* a variant of TileDistance: the goal cell of tile num taken as cell num
TileDistanceOffByOne(state, i, grid_size) ==
  LET num == At(state, i)
      goal_index == num
  IN IF num # 0
     THEN Abs((i \div grid_size) - (goal_index \div grid_size))
          + Abs((i % grid_size) - (goal_index % grid_size))
     ELSE 0

TileDistance(state, i, grid_size) ==
  LET num == At(state, i)
      goal_index == num - 1
  IN IF num # 0
     THEN Abs((i \div grid_size) - (goal_index \div grid_size))
          + Abs((i % grid_size) - (goal_index % grid_size))
     ELSE 0

RECURSIVE HeuristicFrom(_, _, _)
HeuristicFrom(state, i, grid_size) ==
  IF i >= Len(state) THEN 0
  ELSE TileDistance(state, i, grid_size) + HeuristicFrom(state, i + 1, grid_size)

heuristic(state, grid_size) == HeuristicFrom(state, 0, grid_size)

\* ------------------------------------------------------------------------
\* The frontier: std::priority_queue<PQElement, ..., std::greater<PQElement>>
\* A PQElement is <<f_score, state>>.  The queue is kept as the sequence of
\* its entries in push order; top() is the least entry of std::pair's
\* operator<, which compares the f_score and then the states slot by slot.
\* ------------------------------------------------------------------------

\* operator< of std::array<int, 9>: lexicographic
StateLess(a, b) ==
  \E i \in 1..Len(a) :
    /\ a[i] < b[i]
    /\ \A j \in 1..(i - 1) : a[j] = b[j]

\* operator< of std::pair<int, State>
PairLess(x, y) ==
  \/ x[1] < y[1]
  \/ x[1] = y[1] /\ StateLess(x[2], y[2])

\* the frontier entries with the smallest f_score
MinKeyIndices(heap) ==
  { i \in 1..Len(heap) : \A j \in 1..Len(heap) : heap[i][1] <= heap[j][1] }

\* The rule that orders entries of equal f_score.  "least" is the code's
\* std::greater<PQElement> (the entry whose state is least is on top);
\* "greatest" is the opposite rule, kept to compare tie-breaking rules.
TieBreaks == {"least", "greatest"}

\* index of the entry top() returns under a tie-breaking rule
TopIndex(heap, tie_break) ==
  IF tie_break = "least"
  THEN CHOOSE i \in 1..Len(heap) :
         \A j \in 1..Len(heap) : ~PairLess(heap[j], heap[i])
  ELSE CHOOSE i \in MinKeyIndices(heap) :
         \A j \in MinKeyIndices(heap) : ~StateLess(heap[i][2], heap[j][2])

\* a variant of PopTop: top() read, pop() forgotten
PopTopForgotten(heap, tie_break) == heap

\* open_heap.pop(): the queue without its top entry
PopTop(heap, tie_break) ==
  LET t == TopIndex(heap, tie_break)
  IN SubSeq(heap, 1, t - 1) \o SubSeq(heap, t + 1, Len(heap))

\* ------------------------------------------------------------------------
\* The bookkeeping of one solve call, as a record:
\*   g : g_score, cf : came_from, heap : open_heap, open : open_set_hash
\* Maps are functions whose DOMAIN is the set of keys.
\* ------------------------------------------------------------------------

EmptyMap == << >>

Put(map, key, value) == (key :> value) @@ map

\* a variant of MoveLabel: the blank's cell recorded instead of the tile's
MoveLabelBlank(tile_r, tile_c, empty_r, empty_c, offset) == <<empty_r, empty_c>>

\* the Move recorded for a neighbor: the neighbor cell's {tile_r, tile_c}
MoveLabel(tile_r, tile_c, empty_r, empty_c, offset) == <<tile_r, tile_c>>

\* a variant of Improves: every neighbor is recorded, better or not
ImprovesAlways(g, neighbor_state, tentative_g_score) == TRUE

\* a variant of Improves: only states already scored are recorded
ImprovesSeenOnly(g, neighbor_state, tentative_g_score) ==
  /\ neighbor_state \in DOMAIN g
  /\ tentative_g_score < g[neighbor_state]

\* the test that lets a neighbor be recorded
Improves(g, neighbor_state, tentative_g_score) ==
  \/ neighbor_state \notin DOMAIN g
  \/ tentative_g_score < g[neighbor_state]

\* the body of the neighbor loop for offset k of current_state
Relax(rec, current_state, k, grid_size) ==
  LET empty_index == EmptyIndex(current_state)
      empty_r == empty_index \div grid_size
      empty_c == empty_index % grid_size
      tile_r == empty_r + Offsets[k][1]
      tile_c == empty_c + Offsets[k][2]
      neighbor_state == NeighborState(current_state, k, grid_size)
      tentative_g_score == rec.g[current_state] + 1
      f_score == tentative_g_score + heuristic(neighbor_state, grid_size)
  IN IF ~InBounds(tile_r, tile_c, grid_size) THEN rec
     ELSE IF ~Improves(rec.g, neighbor_state, tentative_g_score) THEN rec
     ELSE [ g    |-> Put(rec.g, neighbor_state, tentative_g_score),
            cf   |-> Put(rec.cf, neighbor_state,
                         << current_state,
                            MoveLabel(tile_r, tile_c, empty_r, empty_c,
                                      Offsets[k]) >>),
            heap |-> IF neighbor_state \notin rec.open
                     THEN Append(rec.heap, <<f_score, neighbor_state>>)
                     ELSE rec.heap,
            open |-> rec.open \cup {neighbor_state} ]

\* the neighbor loop: the offsets in order (the record after offset k is
\* bound before the loop goes on to offset k + 1)
RECURSIVE ExpandFrom(_, _, _, _)
ExpandFrom(rec, current_state, k, grid_size) ==
  IF k > Len(Offsets) THEN rec
  ELSE CHOOSE out \in
         { ExpandFrom(after, current_state, k + 1, grid_size) :
             after \in {Relax(rec, current_state, k, grid_size)} } : TRUE

Expand(rec, current_state, grid_size) ==
  ExpandFrom(rec, current_state, 1, grid_size)

\* a variant of Seed: the start node scored 1
SeedFromOne(initial, grid_size) ==
  [ g    |-> Put(EmptyMap, initial, 1),
    cf   |-> EmptyMap,
    heap |-> << <<heuristic(initial, grid_size), initial>> >>,
    open |-> {initial} ]

\* the seeding of the search with the start node
Seed(initial, grid_size) ==
  [ g    |-> Put(EmptyMap, initial, 0),
    cf   |-> EmptyMap,
    heap |-> << <<heuristic(initial, grid_size), initial>> >>,
    open |-> {initial} ]

\* a variant of Popped: the erase from open_set_hash left out
PoppedNotErased(rec, tie_break) ==
  [ rec EXCEPT !.heap = PopTop(rec.heap, tie_break) ]

\* top(), pop() and the erase from open_set_hash
Popped(rec, tie_break) ==
  [ rec EXCEPT !.heap = PopTop(rec.heap, tie_break),
               !.open = rec.open \ {rec.heap[TopIndex(rec.heap, tie_break)][2]} ]

\* ------------------------------------------------------------------------
\* reconstruct_move_path
\* ------------------------------------------------------------------------

\* a variant of Reverse: the collected moves left in backward order
ReverseForgotten(seq) == seq

Reverse(seq) == [i \in 1..Len(seq) |-> seq[Len(seq) + 1 - i]]

\* the while loop: the moves from current_state back to a state without a
\* predecessor record
RECURSIVE CollectMoves(_, _)
CollectMoves(cf, current_state) ==
  IF current_state \in DOMAIN cf
  THEN <<cf[current_state][2]>> \o CollectMoves(cf, cf[current_state][1])
  ELSE << >>

reconstruct_move_path(cf, current_state) ==
  Reverse(CollectMoves(cf, current_state))

\* ------------------------------------------------------------------------
\* Results: std::optional<Path>
\* ------------------------------------------------------------------------

NoResult == [kind |-> "none", path |-> << >>]
NullOpt == [kind |-> "nullopt", path |-> << >>]
SomePath(p) == [kind |-> "path", path |-> p]

\* a variant of IsGoal: the early return left out
IsGoalNever(state, goal) == FALSE

\* the test of the first statement of solve_with_a_star
IsGoal(state, goal) == state = goal

\* solve_with_a_star as a function: the search loop run to its return
RECURSIVE SearchLoop(_, _, _, _)
SearchLoop(rec, goal, grid_size, tie_break) ==
  IF rec.heap = << >> THEN NullOpt
  ELSE LET current_state == rec.heap[TopIndex(rec.heap, tie_break)][2]
           popped == Popped(rec, tie_break)
       IN IF current_state = goal
          THEN SomePath(reconstruct_move_path(popped.cf, current_state))
          ELSE SearchLoop(Expand(popped, current_state, grid_size),
                          goal, grid_size, tie_break)

solve_with_a_star(initial, goal, grid_size, tie_break) ==
  IF IsGoal(initial, goal) THEN SomePath(<< >>)
  ELSE SearchLoop(Seed(initial, grid_size), goal, grid_size, tie_break)

\* ------------------------------------------------------------------------
\* std::stoi on a command-line token.  A token is the sequence of its
\* characters.
\* ------------------------------------------------------------------------

DigitChars == <<"0", "1", "2", "3", "4", "5", "6", "7", "8", "9">>

IsDigit(c) == \E i \in 1..Len(DigitChars) : DigitChars[i] = c

DigitValue(c) == (CHOOSE i \in 1..Len(DigitChars) : DigitChars[i] = c) - 1

\* std::numeric_limits<int>::max()
IntMax == 2147483647

RECURSIVE SkipSpaces(_)
SkipSpaces(tok) ==
  IF tok # << >> /\ Head(tok) = " " THEN SkipSpaces(Tail(tok)) ELSE tok

\* the digits consumed so far: [n |-> how many, val |-> their value]
RECURSIVE ReadDigits(_, _)
ReadDigits(tok, acc) ==
  IF tok # << >> /\ IsDigit(Head(tok))
  THEN ReadDigits(Tail(tok),
                  [n |-> acc.n + 1, val |-> acc.val * 10 + DigitValue(Head(tok))])
  ELSE acc

\* [ok |-> whether stoi returns, val |-> the value]; stoi throws
\* invalid_argument when no digit is read and out_of_range past the int range
Stoi(tok) ==
  LET t == SkipSpaces(tok)
      signed == t # << >> /\ Head(t) \in {"+", "-"}
      negative == t # << >> /\ Head(t) = "-"
      body == IF signed THEN Tail(t) ELSE t
      d == ReadDigits(body, [n |-> 0, val |-> 0])
      v == IF negative THEN -d.val ELSE d.val
  IN [ok |-> d.n > 0 /\ v <= IntMax /\ v >= -IntMax - 1, val |-> v]

\* ------------------------------------------------------------------------
\* Inputs
\* ------------------------------------------------------------------------

\* the permutations at most d slides from the goal on the 3x3 grid
RECURSIVE Ball(_)
Ball(d) ==
  IF d = 0 THEN {GoalLayout(DefaultGridSize)}
  ELSE LET b == Ball(d - 1)
       IN b \cup UNION { Neighbors(s, DefaultGridSize) : s \in b }

InputStates == Ball(MaxDepth) \cup RegressionStates

\* the states the malformed inputs are derived from
MalformedBases == Ball(1)

\* a tile value as the token a user types
Token(v) == <<DigitChars[v + 1]>>

Tokens(s) == [i \in 1..Len(s) |-> Token(s[i])]

\* argv[1..]: well-formed lists, lists of 8 and 10 tokens, no token at all, a
\* token that is no number, a number followed by a letter
CliInputs ==
  { Tokens(s) : s \in InputStates }
  \cup { SubSeq(Tokens(s), 1, StateLen - 1) : s \in MalformedBases }
  \cup { Append(Tokens(s), Token(0)) : s \in MalformedBases }
  \cup { << >> }
  \cup { [Tokens(s) EXCEPT ![2] = <<"x">>] : s \in MalformedBases }
  \cup { [Tokens(s) EXCEPT ![1] = Token(s[1]) \o <<"a">>] : s \in MalformedBases }

\* state_list: well-formed lists, lists of 8 and 10 integers, the empty list
BindingInputs ==
  InputStates
  \cup { SubSeq(s, 1, StateLen - 1) : s \in MalformedBases }
  \cup { Append(s, StateLen) : s \in MalformedBases }
  \cup { << >> }

Callers == {"cli", "binding", "direct"}

InputsOf(c) ==
  IF c = "cli" THEN CliInputs
  ELSE IF c = "binding" THEN BindingInputs
  ELSE InputStates

\* ------------------------------------------------------------------------
\* The state machine
\* ------------------------------------------------------------------------

VARIABLES
  caller,         \* who calls: main(), the Python binding, or C++ code
  input,          \* argv[1..] (tokens), state_list (integers) or a State
  tie_break,      \* the rule ordering frontier entries of equal f_score
  grid_size_,     \* PuzzleSolver::grid_size_ (0 before construction)
  goal_state_,    \* PuzzleSolver::goal_state_ (<< >> before construction)
  initial_state,  \* the argument of solve_with_a_star (<< >> before the call)
  open_heap,
  g_score,
  came_from,
  open_set_hash,
  result,         \* what solve_with_a_star returned
  pc,             \* "entry", "solve", "loop", "returned", "done"
  outcome,        \* "pending", "exit_0", "exit_1", "runtime_error", "value"
  stdout,
  stderr

solver == <<grid_size_, goal_state_>>
search == <<open_heap, g_score, came_from, open_set_hash>>
streams == <<stdout, stderr>>
vars == <<caller, input, tie_break, grid_size_, goal_state_, initial_state,
          open_heap, g_score, came_from, open_set_hash, result, pc, outcome,
          stdout, stderr>>

InitAny ==
  /\ caller \in Callers
  /\ input \in InputsOf(caller)
  /\ tie_break \in TieBreaks
  /\ grid_size_ = 0
  /\ goal_state_ = << >>
  /\ initial_state = << >>
  /\ open_heap = << >>
  /\ g_score = EmptyMap
  /\ came_from = EmptyMap
  /\ open_set_hash = {}
  /\ result = NoResult
  /\ pc = "entry"
  /\ outcome = "pending"
  /\ stdout = << >>
  /\ stderr = << >>

\* the program: ties are ordered by std::greater<PQElement>
Init == InitAny /\ tie_break = "least"

\* a variant of ArgCountOk: only too few arguments are refused
ArgCountAtLeast(argc) == argc >= 10

\* main's test of argc (argv[0] is the program name)
ArgCountOk(argc) == argc = 10

\* the binding's test of state_list.size()
SizeOk(size) == size = 9

\* PuzzleSolver solver;  (or PuzzleSolver solver(n);)
Construct(n) ==
  /\ grid_size_' = n
  /\ goal_state_' = GoalLayout(n)

\* main() up to the call of solve_with_a_star
MainEntry ==
  /\ pc = "entry"
  /\ caller = "cli"
  /\ IF ~ArgCountOk(Len(input) + 1)
     THEN /\ stderr' = <<"Usage", "Provide the 9 tile numbers", "Example">>
          /\ outcome' = "exit_1"
          /\ pc' = "done"
          /\ UNCHANGED <<solver, initial_state, stdout>>
     ELSE IF \E i \in 1..StateLen : ~Stoi(input[i]).ok
     THEN /\ stderr' = <<"Error: Invalid number provided">>
          /\ outcome' = "exit_1"
          /\ pc' = "done"
          /\ UNCHANGED <<solver, initial_state, stdout>>
     ELSE /\ initial_state' = [i \in 1..StateLen |-> Stoi(input[i]).val]
          /\ Construct(DefaultGridSize)
          /\ stdout' = <<"Solving puzzle...">>
          /\ pc' = "solve"
          /\ UNCHANGED <<outcome, stderr>>
  /\ UNCHANGED <<caller, input, tie_break, search, result>>

\* the binding's lambda up to the call of solve_with_a_star
BindingEntry ==
  /\ pc = "entry"
  /\ caller = "binding"
  /\ IF ~SizeOk(Len(input))
     THEN /\ outcome' = "runtime_error"
          /\ pc' = "done"
          /\ UNCHANGED <<solver, initial_state>>
     ELSE /\ initial_state' = [i \in 1..StateLen |-> input[i]]
          /\ Construct(DefaultGridSize)
          /\ pc' = "solve"
          /\ UNCHANGED outcome
  /\ UNCHANGED <<caller, input, tie_break, search, result, streams>>

\* C++ code that constructs a solver of some dimension and calls it
DirectEntry ==
  /\ pc = "entry"
  /\ caller = "direct"
  /\ \E n \in GridSizes : Construct(n)
  /\ initial_state' = input
  /\ pc' = "solve"
  /\ UNCHANGED <<caller, input, tie_break, search, result, outcome, streams>>

\* solve_with_a_star up to the search loop
SolveStart ==
  /\ pc = "solve"
  /\ IF IsGoal(initial_state, goal_state_)
     THEN /\ result' = SomePath(<< >>)
          /\ pc' = "returned"
          /\ UNCHANGED search
     ELSE LET rec == Seed(initial_state, grid_size_)
          IN /\ g_score' = rec.g
             /\ came_from' = rec.cf
             /\ open_heap' = rec.heap
             /\ open_set_hash' = rec.open
             /\ pc' = "loop"
             /\ UNCHANGED result
  /\ UNCHANGED <<caller, input, tie_break, solver, initial_state, outcome,
                 streams>>

\* one iteration of the search loop
LoopIter ==
  /\ pc = "loop"
  /\ open_heap # << >>
  /\ \E rec \in { [g |-> g_score, cf |-> came_from, heap |-> open_heap,
                    open |-> open_set_hash] } :
     \E current_state \in { open_heap[TopIndex(open_heap, tie_break)][2] } :
     \E popped \in { Popped(rec, tie_break) } :
        \E next \in { IF current_state = goal_state_ THEN popped
                      ELSE Expand(popped, current_state, grid_size_) } :
          /\ g_score' = next.g
          /\ came_from' = next.cf
          /\ open_heap' = next.heap
          /\ open_set_hash' = next.open
          /\ IF current_state = goal_state_
             THEN /\ result' = SomePath(reconstruct_move_path(came_from,
                                                              current_state))
                  /\ pc' = "returned"
             ELSE UNCHANGED <<result, pc>>
  /\ UNCHANGED <<caller, input, tie_break, solver, initial_state, outcome,
                 streams>>

\* the loop ends on an empty frontier: return std::nullopt
LoopExit ==
  /\ pc = "loop"
  /\ open_heap = << >>
  /\ result' = NullOpt
  /\ pc' = "returned"
  /\ UNCHANGED <<caller, input, tie_break, solver, initial_state, search,
                 outcome, streams>>

\* main() after the call: print the solution or its absence, return 0
MainReport ==
  /\ pc = "returned"
  /\ caller = "cli"
  /\ stdout' = IF result.kind = "path"
               THEN stdout \o << <<"Solution found in", Len(result.path), "moves.">>,
                                 <<"Solution Path", result.path>> >>
               ELSE Append(stdout, <<"No solution could be found">>)
  /\ outcome' = "exit_0"
  /\ pc' = "done"
  /\ UNCHANGED <<caller, input, tie_break, solver, initial_state, search,
                 result, stderr>>

\* the optional goes back to the caller (the binding's or the C++ caller's)
Return ==
  /\ pc = "returned"
  /\ caller # "cli"
  /\ outcome' = "value"
  /\ pc' = "done"
  /\ UNCHANGED <<caller, input, tie_break, solver, initial_state, search,
                 result, streams>>

Next ==
  \/ MainEntry
  \/ BindingEntry
  \/ DirectEntry
  \/ SolveStart
  \/ LoopIter
  \/ LoopExit
  \/ MainReport
  \/ Return

Spec == Init /\ [][Next]_vars

\* a call, once made, keeps running: no step of it waits for anything
FairSpec == Spec /\ WF_vars(Next)

\* the same program under either tie-breaking rule
SpecTie == InitAny /\ [][Next]_vars

\* ------------------------------------------------------------------------
\* The move graph, for stating the claims
\* ------------------------------------------------------------------------

\* breadth-first search: the number of slides of a shortest path from the
\* states of `frontier` (already d slides from the start) to goal, -1 when
\* goal cannot be reached
RECURSIVE BfsDistance(_, _, _, _, _)
BfsDistance(frontier, seen, goal, grid_size, d) ==
  IF goal \in frontier THEN d
  ELSE IF frontier = {} THEN -1
  ELSE LET next == UNION { Neighbors(s, grid_size) : s \in frontier } \ seen
       IN BfsDistance(next, seen \cup next, goal, grid_size, d + 1)

Distance(s, goal, grid_size) == BfsDistance({s}, {s}, goal, grid_size, 0)

Reachable(s, goal, grid_size) == Distance(s, goal, grid_size) >= 0

\* the states from which one expansion step generates s
Predecessors(s, grid_size) ==
  { t \in { SwapCells(s, EmptyIndex(s), j) : j \in 0..(Len(s) - 1) } :
      s \in Neighbors(t, grid_size) }

\* breadth-first search backwards from the goal: layers[k] holds the states
\* whose shortest path to the goal has k - 1 slides; the search stops once
\* every state of `targets` is in a layer or no state is left
RECURSIVE GoalLayers(_, _, _, _)
GoalLayers(layers, seen, targets, grid_size) ==
  LET frontier == layers[Len(layers)]
      next == UNION { Predecessors(s, grid_size) : s \in frontier } \ seen
  IN IF targets \subseteq seen \/ next = {} THEN layers
     ELSE GoalLayers(Append(layers, next), seen \cup next, targets, grid_size)

\* the distance a table of layers gives for s, -1 when s is in no layer
LayerDistance(layers, s) ==
  IF \E k \in 1..Len(layers) : s \in layers[k]
  THEN (CHOOSE k \in 1..Len(layers) : s \in layers[k]) - 1
  ELSE -1

\* the state after sliding into the blank the tile of the cell a move names
ApplyMove(s, move, grid_size) ==
  SwapCells(s, EmptyIndex(s), move[1] * grid_size + move[2])

RECURSIVE Replay(_, _, _)
Replay(s, path, grid_size) ==
  IF path = << >> THEN s
  ELSE Replay(ApplyMove(s, Head(path), grid_size), Tail(path), grid_size)

Returned == pc \in {"returned", "done"} /\ result.kind # "none"

\* ------------------------------------------------------------------------
\* Claims
\* ------------------------------------------------------------------------

\* C1 (as claimed): a returned path is as long as the breadth-first distance
\* from the initial state to the goal.
Optimality ==
  (Returned /\ result.kind = "path")
    => Len(result.path) = Distance(initial_state, goal_state_, grid_size_)

\* C2: replaying a returned path from the initial state, each move swapping
\* the blank with the cell the move names, ends on the goal.
PathValidity ==
  (Returned /\ result.kind = "path")
    => Replay(initial_state, result.path, grid_size_) = goal_state_

PathValidityWitness ==
  /\ pc = "returned"
  /\ result.kind = "path"
  /\ Len(result.path) > MaxDepth
  /\ Replay(initial_state, result.path, grid_size_) = goal_state_

Termination == (pc = "solve") ~> (pc = "returned")

TerminationWitness ==
  /\ pc = "returned"
  /\ Cardinality(DOMAIN g_score) > 4 * StateLen

\* C5: the empty path is returned exactly when the initial state is the
\* goal, and then no g_score, frontier, membership or predecessor entry was
\* created.
GoalShortCircuit ==
  Returned
    => /\ (result = SomePath(<< >>)) <=> (initial_state = goal_state_)
       /\ initial_state = goal_state_
            => /\ g_score = EmptyMap
               /\ came_from = EmptyMap
               /\ open_heap = << >>
               /\ open_set_hash = {}

GoalShortCircuitWitness ==
  /\ pc = "returned"
  /\ initial_state = goal_state_
  /\ result = SomePath(<< >>)
  /\ g_score = EmptyMap

\* the cells of s whose tile, slid into the blank, gives the goal
SlideCells(s, goal, grid_size) ==
  { i \in 0..(Len(s) - 1) :
      /\ At(s, i) # 0
      /\ <<i \div grid_size, i % grid_size>> \in
           { <<TileRow(s, k, grid_size), TileCol(s, k, grid_size)>> :
               k \in 1..Len(Offsets) }
      /\ SwapCells(s, EmptyIndex(s), i) = goal }

\* C6: from a state one slide away from the goal the path is the single move
\* naming the cell that holds the tile to slide ((2,2) for
\* [1,2,3,4,5,6,7,0,8]).
MoveLabelling ==
  (Returned /\ goal_state_ \in Neighbors(initial_state, grid_size_))
    => /\ result.kind = "path"
       /\ Len(result.path) = 1
       /\ \E i \in SlideCells(initial_state, goal_state_, grid_size_) :
            result.path[1] = <<i \div grid_size_, i % grid_size_>>
       /\ initial_state = <<1, 2, 3, 4, 5, 6, 7, 0, 8>>
            => result.path = << <<2, 2>> >>

MoveLabellingWitness ==
  /\ pc = "returned"
  /\ initial_state = <<1, 2, 3, 4, 5, 6, 7, 0, 8>>
  /\ result = SomePath(<< <<2, 2>> >>)

\* C7: for every state the search scored from which the goal can be reached,
\* the heuristic is a non-negative integer no greater than the breadth-first
\* distance to the goal, and the heuristic of the goal is 0.
Admissibility ==
  pc = "returned"
    => LET scored == DOMAIN g_score \cup {initial_state}
           layers == GoalLayers(<<{goal_state_}>>, {goal_state_}, scored,
                                grid_size_)
       IN /\ \A s \in scored :
               LET d == LayerDistance(layers, s)
                   h == heuristic(s, grid_size_)
               IN d >= 0 => (h \in Nat /\ h <= d)
          /\ heuristic(goal_state_, grid_size_) = 0

AdmissibilityWitness ==
  /\ pc = "returned"
  /\ \E s \in DOMAIN g_score :
       /\ heuristic(s, grid_size_) > MaxDepth
       /\ heuristic(s, grid_size_) = Distance(s, goal_state_, grid_size_)

\* C8 (as claimed): under either rule for ordering entries of equal f-score
\* the result has the kind and the length of the result under the code's rule.
TieBreakIndependence ==
  Returned
    => LET ref == solve_with_a_star(initial_state, goal_state_, grid_size_,
                                    "least")
       IN /\ result.kind = ref.kind
          /\ Len(result.path) = Len(ref.path)

\* the goal layout of an n x n grid: 1..n*n-1 in row-major order, then the
\* blank
RowMajorGoal(n) == [i \in 1..(n * n) |-> IF i < n * n THEN i ELSE 0]

\* C9 (as claimed): a constructed solver's goal state, and the state it is
\* called with, have grid_size_ * grid_size_ slots, the goal being
\* 1..N*N-1 followed by the blank.
GridDimensionGoverns ==
  grid_size_ # 0
    => /\ goal_state_ = RowMajorGoal(grid_size_)
       /\ Len(goal_state_) = grid_size_ * grid_size_
       /\ initial_state # << >>
            => Len(initial_state) = grid_size_ * grid_size_

\* C10: an adapter given a number of tiles other than 9 never calls
\* solve_with_a_star and builds neither a State nor a solver; main() ends
\* with exit status 1 and the binding raises.
WrongCountRejected ==
  (caller \in {"cli", "binding"} /\ Len(input) # StateLen)
    => /\ pc \in {"entry", "done"}
       /\ initial_state = << >>
       /\ grid_size_ = 0
       /\ g_score = EmptyMap
       /\ result = NoResult
       /\ pc = "done"
            => outcome = IF caller = "cli" THEN "exit_1" ELSE "runtime_error"

WrongCountRejectedWitness ==
  /\ pc = "done"
  /\ caller = "cli"
  /\ Len(input) = StateLen + 1
  /\ outcome = "exit_1"
  /\ stderr # << >>

\* the f-score a state has under the bookkeeping as it stands: its recorded
\* g-score plus its heuristic
CurrentF(s) == g_score[s] + heuristic(s, grid_size_)

\* the entry top() returns at the top of a loop iteration
TopEntry == open_heap[TopIndex(open_heap, tie_break)]

\* C11 (as claimed): at the top of every loop iteration the state about to be
\* popped has the least current f-score (recorded g-score plus heuristic) of
\* all states in open_set_hash.
PopOrder ==
  (pc = "loop" /\ open_heap # << >>)
    => \A s \in open_set_hash : CurrentF(TopEntry[2]) <= CurrentF(s)

\* the entry about to be popped carries a key that is not the f-score of its
\* state's recorded g-score
StaleTop ==
  /\ pc = "loop"
  /\ open_heap # << >>
  /\ TopEntry[1] # CurrentF(TopEntry[2])

\* C12 (as claimed): an iteration that pops a stale entry only discards it:
\* the state is neither goal-tested nor expanded, so nothing is returned and
\* no g_score, came_from or frontier entry is written.
LazyDeletion ==
  [][ StaleTop
        => /\ pc' = "loop"
           /\ result' = result
           /\ g_score' = g_score
           /\ came_from' = came_from
           /\ open_heap' = PopTop(open_heap, tie_break) ]_vars

\* the states the entries of a heap are for
HeapStates(heap) == { heap[i][2] : i \in 1..Len(heap) }

\* C13: at the top of every loop iteration open_set_hash holds exactly the
\* states open_heap has an entry for, and no two entries of open_heap are for
\* the same state.
MembershipMirrors ==
  pc = "loop"
    => /\ open_set_hash = HeapStates(open_heap)
       /\ \A i, j \in 1..Len(open_heap) :
            open_heap[i][2] = open_heap[j][2] => i = j

\* a state in the frontier was improved (its entry's key is no longer its
\* f-score): the push was skipped, and its one entry is still the only one
MembershipMirrorsWitness ==
  /\ pc = "loop"
  /\ Len(open_heap) > StateLen
  /\ open_set_hash = HeapStates(open_heap)
  /\ Cardinality(open_set_hash) = Len(open_heap)
  /\ \E i \in 1..Len(open_heap) :
       open_heap[i][1] > CurrentF(open_heap[i][2])

\* C14: for every state s the search scored and every state t one legal
\* slide away from s, heuristic(s) <= 1 + heuristic(t) (and, the slide being
\* reversible, heuristic(t) <= 1 + heuristic(s)).
Consistency ==
  pc \in {"loop", "returned"}
    => \A s \in DOMAIN g_score \cup {initial_state} :
         \A t \in Neighbors(s, grid_size_) :
           /\ heuristic(s, grid_size_) <= 1 + heuristic(t, grid_size_)
           /\ heuristic(t, grid_size_) <= 1 + heuristic(s, grid_size_)

\* a 3x3 run has scored a state with a slide that lowers the heuristic and
\* a slide that raises it
ConsistencyWitness ==
  /\ pc = "returned"
  /\ grid_size_ = DefaultGridSize
  /\ \E s \in DOMAIN g_score :
       /\ heuristic(s, grid_size_) > MaxDepth
       /\ \E t, u \in Neighbors(s, grid_size_) :
            /\ heuristic(s, grid_size_) = 1 + heuristic(t, grid_size_)
            /\ heuristic(u, grid_size_) = 1 + heuristic(s, grid_size_)

\* the cell <<row, col>> of flat index i
CellOf(i, grid_size) == <<i \div grid_size, i % grid_size>>

\* the cells of the grid at Manhattan distance exactly 1 from the blank of s
AdjacentCells(s, grid_size) ==
  LET blank == CellOf(EmptyIndex(s), grid_size)
  IN { cell \in (0..(grid_size - 1)) \X (0..(grid_size - 1)) :
         Abs(cell[1] - blank[1]) + Abs(cell[2] - blank[2]) = 1 }

\* every move of path, applied in turn from s, names a cell adjacent to the
\* blank of the state it is applied to
RECURSIVE LegalFrom(_, _, _)
LegalFrom(s, path, grid_size) ==
  \/ path = << >>
  \/ /\ Head(path) \in AdjacentCells(s, grid_size)
     /\ LegalFrom(ApplyMove(s, Head(path), grid_size), Tail(path), grid_size)

\* C15: every move of a returned path names a cell of the grid (row and
\* column in 0..grid_size_ - 1) at Manhattan distance exactly 1 from the
\* blank of the state it is applied to; and the states an expansion
\* generates are the swaps of the blank with exactly those cells, and every
\* predecessor record links two such states by such a cell.
MoveLegality ==
  /\ (Returned /\ result.kind = "path")
       => LegalFrom(initial_state, result.path, grid_size_)
  /\ pc \in {"loop", "returned"}
       => /\ \A s \in DOMAIN g_score \cup {initial_state} :
               Neighbors(s, grid_size_) =
                 { SwapCells(s, EmptyIndex(s),
                             cell[1] * grid_size_ + cell[2]) :
                     cell \in AdjacentCells(s, grid_size_) }
          /\ \A t \in DOMAIN came_from :
               /\ came_from[t][2] \in AdjacentCells(came_from[t][1], grid_size_)
               /\ t = ApplyMove(came_from[t][1], came_from[t][2], grid_size_)

\* a returned path of more than MaxDepth moves with a move of every
\* direction (the tile right of, left of, below and above the blank)
MoveLegalityWitness ==
  /\ pc = "returned"
  /\ result.kind = "path"
  /\ Len(result.path) > MaxDepth
  /\ LegalFrom(initial_state, result.path, grid_size_)
  /\ \A k \in 1..Len(Offsets) :
       \E t \in DOMAIN came_from :
         LET blank == CellOf(EmptyIndex(came_from[t][1]), grid_size_)
         IN came_from[t][2] = <<blank[1] + Offsets[k][1],
                                blank[2] + Offsets[k][2]>>

\* s holds each of 0..8 once (so exactly one blank)
IsPermutation(s) ==
  /\ DOMAIN s = 1..StateLen
  /\ \A v \in 0..(StateLen - 1) :
       Cardinality({ i \in 1..StateLen : s[i] = v }) = 1

\* C16: when the initial state is a permutation of 0..8, every key of
\* g_score, every key and every predecessor state of came_from, every member
\* of open_set_hash and every state of an entry of open_heap is a permutation
\* of 0..8 with exactly one blank.
PermutationInvariant ==
  (initial_state # << >> /\ IsPermutation(initial_state))
    => \A s \in DOMAIN g_score \cup DOMAIN came_from \cup open_set_hash
                  \cup HeapStates(open_heap)
                  \cup { came_from[t][1] : t \in DOMAIN came_from } :
         IsPermutation(s)

\* a search on a permutation has scored more than 4 * StateLen states, with
\* entries left in the frontier
PermutationInvariantWitness ==
  /\ pc = "loop"
  /\ IsPermutation(initial_state)
  /\ Cardinality(DOMAIN g_score) > 4 * StateLen
  /\ Cardinality(DOMAIN came_from) > 4 * StateLen
  /\ Len(open_heap) > StateLen
  /\ \A s \in DOMAIN g_score \cup HeapStates(open_heap) : IsPermutation(s)

\* C17: when the goal is popped and a path returned, the path has as many
\* moves as the g-score recorded for the goal.
CostMatchesPath ==
  (Returned /\ result.kind = "path" /\ goal_state_ \in DOMAIN g_score)
    => /\ Len(result.path) = g_score[goal_state_]
       /\ result.path = reconstruct_move_path(came_from, goal_state_)

\* the goal was popped with a g-score above the distance, after improvements
\* left stale keys in the frontier, and the path is as long as that g-score
CostMatchesPathWitness ==
  /\ pc = "returned"
  /\ result.kind = "path"
  /\ goal_state_ \in DOMAIN g_score
  /\ Len(result.path) = g_score[goal_state_]
  /\ g_score[goal_state_] > Distance(initial_state, goal_state_, grid_size_)

\* following came_from from s reaches the initial state in at most fuel links
RECURSIVE ChainReaches(_, _, _, _)
ChainReaches(cf, s, initial, fuel) ==
  \/ s = initial
  \/ /\ fuel > 0
     /\ s \in DOMAIN cf
     /\ ChainReaches(cf, cf[s][1], initial, fuel - 1)

\* C18: throughout a solve call the initial state has no came_from record,
\* the predecessor of every recorded state has a recorded g-score strictly
\* below the state's own, and the came_from links from any scored state lead
\* to the initial state within as many links as its g-score (so without a
\* cycle, and CollectMoves ends).
ChainsWellFounded ==
  pc \in {"loop", "returned", "done"}
    => /\ initial_state \notin DOMAIN came_from
       /\ DOMAIN came_from = DOMAIN g_score \ {initial_state}
       /\ \A s \in DOMAIN came_from :
            /\ came_from[s][1] \in DOMAIN g_score
            /\ g_score[came_from[s][1]] < g_score[s]
       /\ \A s \in DOMAIN g_score :
            ChainReaches(came_from, s, initial_state, g_score[s])

\* a state was recorded again with a better predecessor, and a chain of more
\* than MaxDepth links leads from a scored state to the initial state
ChainsWellFoundedWitness ==
  /\ pc = "loop"
  /\ initial_state \notin DOMAIN came_from
  /\ \E i \in 1..Len(open_heap) :
       open_heap[i][1] > CurrentF(open_heap[i][2])
  /\ \E s \in DOMAIN came_from :
       /\ g_score[s] > MaxDepth
       /\ ChainReaches(came_from, s, initial_state, g_score[s])
       /\ ~ChainReaches(came_from, s, initial_state, MaxDepth)

====
